---- MODULE Spec2Model ----
(***************************************************************************)
(* Authorization core of the RBAC administration server: the login and     *)
(* lockout tracker, the password-reset flow, the authenticateJWT and       *)
(* authorize guards, and the role / permission routes they protect.        *)
(*                                                                         *)
(* Times are clock ticks (the code uses milliseconds); the configured      *)
(* durations are scaled to a few ticks.  The module enum is cut down to    *)
(* three of its seven values, the seed to two roles and two users.         *)
(***************************************************************************)
EXTENDS Integers, FiniteSets, Sequences, TLC

----------------------------------------------------------------------------
(* Bounds of the model *)

MaxTime == 3          \* the clock runs from 0 to MaxTime
MaxTokens == 2        \* reset tokens that crypto.randomBytes hands out
MaxRaceTime == 1      \* clock range of the interleaved specifications
MaxRoles == 3         \* role ids: the seeded roles and those POST /roles creates

(* Configuration, scaled *)

MaxAttempts == 3      \* parseInt(process.env.MAX_LOGIN_ATTEMPTS) || 5
LockoutTime == 2      \* parseInt(process.env.LOCKOUT_TIME) || 900000
ResetLifetime == 2    \* Date.now() + 3600000
JwtLifetime == 2      \* process.env.JWT_EXPIRES_IN || '7d'

----------------------------------------------------------------------------
(* Values *)

Null == -1            \* SQL NULL in a DATE column
NoToken == 0          \* SQL NULL in reset_password_token
NoUser == 0           \* findOne / findByPk returned null
NoRole == 0

UserIds == 1 .. 2
Emails == 0 .. 2      \* user i has email i; email 0 belongs to nobody
SeedPassword == "admin123!"
Passwords == {SeedPassword, "Changed1!"}
Modules == {"dashboard", "users", "roles"}
CrudActions == {"create", "read", "update", "delete"}
SuperAdminName == "Super Admin"

\* bcrypt.hash / bcrypt.compare: a digest that only its own plaintext matches.
Hash(plaintext) == <<"bcrypt", plaintext>>

Compare(plaintext, digest) == digest = Hash(plaintext)

\* The JSON body of a response, as far as a caller can tell responses apart.
Response(status, message, fields) ==
  [status |-> status, message |-> message, fields |-> fields]

----------------------------------------------------------------------------
VARIABLES
  users,      \* table User: id -> row
  roles,      \* table Role: id -> row
  perms,      \* table RolePermission: set of rows
  now,        \* new Date() / Date.now()
  nextToken,  \* the next value crypto.randomBytes(32) returns
  held,       \* per user, the session token the client last received, and
              \* (observer) the status the principal had when it was signed
  reqs,       \* per request slot, the request in flight (guards, handlers)
  last,       \* the last answered request of the /auth routes
  track,      \* observer: the lockout window the specification prescribes
  resetSeen,  \* observer: the reset-request responses seen, by account existence
  consumed    \* observer: the reset tokens a confirm has accepted

vars == <<users, roles, perms, now, nextToken, held, reqs, last, track, resetSeen, consumed>>

----------------------------------------------------------------------------
(* Rows and their updates *)

\* A row of table User as Sequelize returns it; findOne's null is NullUser.
NullUser == [id |-> NoUser]

UserRow(id, role_id) ==
  [id |-> id, exists |-> TRUE, status |-> "active",
   password_hash |-> Hash(SeedPassword), login_attempts |-> 0,
   locked_until |-> Null, last_login |-> Null,
   reset_password_token |-> NoToken, reset_password_expires |-> Null,
   role_id |-> role_id]

\* instance.update(values): one UPDATE ... WHERE id = instance.id that sets the
\* fields whose new value differs from the instance that was read.
InstanceUpdate(table, instance, values) ==
  IF instance.id = NoUser \/ ~table[instance.id].exists THEN table
  ELSE [table EXCEPT ![instance.id] =
          [f \in DOMAIN @ |->
             IF f \in DOMAIN values /\ values[f] # instance[f]
             THEN values[f] ELSE @[f]]]

\* User.findOne({ where: { email } })
FindByEmail(table, email) ==
  IF email \in UserIds /\ table[email].exists THEN table[email] ELSE NullUser

\* jwt.sign({ userId }, secret, { expiresIn }): the claims of a signed token.
Jwt(userId, iat) == [userId |-> userId, iat |-> iat, exp |-> iat + JwtLifetime]

NoJwt == [userId |-> NoUser, iat |-> 0, exp |-> 0]

----------------------------------------------------------------------------
(* POST /auth/login *)

InvalidCredentials == Response(401, "Invalid credentials", {"message"})
AccountLocked == Response(423, "Account is temporarily locked", {"message"})
LoginSuccessful == Response(200, "Login successful", {"message", "token", "user"})
InternalError == Response(500, "Internal server error", {"message"})

\* LoginOutcome with the threshold compared by > : the lock comes one failure late.
LoginOutcome_LockLate(user, password, t) ==
  IF user.id = NoUser
  THEN [resp |-> InvalidCredentials, values |-> <<>>, token |-> NoJwt]
  ELSE IF user.locked_until # Null /\ user.locked_until > t
  THEN [resp |-> AccountLocked, values |-> <<>>, token |-> NoJwt]
  ELSE IF ~Compare(password, user.password_hash)
  THEN LET loginAttempts == user.login_attempts + 1 IN
       [resp |-> InvalidCredentials,
        values |-> IF loginAttempts > MaxAttempts
                   THEN [login_attempts |-> loginAttempts,
                         locked_until |-> t + LockoutTime]
                   ELSE [login_attempts |-> loginAttempts],
        token |-> NoJwt]
  ELSE [resp |-> LoginSuccessful,
        values |-> [login_attempts |-> 0, locked_until |-> Null, last_login |-> t],
        token |-> Jwt(user.id, t)]

\* LoginOutcome counting the attempts made while the lock holds.
LoginOutcome_CountsWhileLocked(user, password, t) ==
  IF user.id = NoUser
  THEN [resp |-> InvalidCredentials, values |-> <<>>, token |-> NoJwt]
  ELSE IF user.locked_until # Null /\ user.locked_until > t
  THEN [resp |-> AccountLocked,
        values |-> [login_attempts |-> user.login_attempts + 1], token |-> NoJwt]
  ELSE IF ~Compare(password, user.password_hash)
  THEN LET loginAttempts == user.login_attempts + 1 IN
       [resp |-> InvalidCredentials,
        values |-> IF loginAttempts >= MaxAttempts
                   THEN [login_attempts |-> loginAttempts,
                         locked_until |-> t + LockoutTime]
                   ELSE [login_attempts |-> loginAttempts],
        token |-> NoJwt]
  ELSE [resp |-> LoginSuccessful,
        values |-> [login_attempts |-> 0, locked_until |-> Null, last_login |-> t],
        token |-> Jwt(user.id, t)]

\* LoginOutcome whose success leaves the counter and the lock as they were.
LoginOutcome_KeepsCounter(user, password, t) ==
  IF user.id = NoUser
  THEN [resp |-> InvalidCredentials, values |-> <<>>, token |-> NoJwt]
  ELSE IF user.locked_until # Null /\ user.locked_until > t
  THEN [resp |-> AccountLocked, values |-> <<>>, token |-> NoJwt]
  ELSE IF ~Compare(password, user.password_hash)
  THEN LET loginAttempts == user.login_attempts + 1 IN
       [resp |-> InvalidCredentials,
        values |-> IF loginAttempts >= MaxAttempts
                   THEN [login_attempts |-> loginAttempts,
                         locked_until |-> t + LockoutTime]
                   ELSE [login_attempts |-> loginAttempts],
        token |-> NoJwt]
  ELSE [resp |-> LoginSuccessful,
        values |-> [last_login |-> t],
        token |-> Jwt(user.id, t)]

\* LoginOutcome telling an unknown email apart from a wrong password.
LoginOutcome_UnknownIs404(user, password, t) ==
  IF user.id = NoUser
  THEN [resp |-> Response(404, "User not found", {"message"}),
        values |-> <<>>, token |-> NoJwt]
  ELSE IF user.locked_until # Null /\ user.locked_until > t
  THEN [resp |-> AccountLocked, values |-> <<>>, token |-> NoJwt]
  ELSE IF ~Compare(password, user.password_hash)
  THEN LET loginAttempts == user.login_attempts + 1 IN
       [resp |-> InvalidCredentials,
        values |-> IF loginAttempts >= MaxAttempts
                   THEN [login_attempts |-> loginAttempts,
                         locked_until |-> t + LockoutTime]
                   ELSE [login_attempts |-> loginAttempts],
        token |-> NoJwt]
  ELSE [resp |-> LoginSuccessful,
        values |-> [login_attempts |-> 0, locked_until |-> Null, last_login |-> t],
        token |-> Jwt(user.id, t)]

\* LoginOutcome holding the lock through the instant of its expiry.
LoginOutcome_LockInclusive(user, password, t) ==
  IF user.id = NoUser
  THEN [resp |-> InvalidCredentials, values |-> <<>>, token |-> NoJwt]
  ELSE IF user.locked_until # Null /\ user.locked_until >= t
  THEN [resp |-> AccountLocked, values |-> <<>>, token |-> NoJwt]
  ELSE IF ~Compare(password, user.password_hash)
  THEN LET loginAttempts == user.login_attempts + 1 IN
       [resp |-> InvalidCredentials,
        values |-> IF loginAttempts >= MaxAttempts
                   THEN [login_attempts |-> loginAttempts,
                         locked_until |-> t + LockoutTime]
                   ELSE [login_attempts |-> loginAttempts],
        token |-> NoJwt]
  ELSE [resp |-> LoginSuccessful,
        values |-> [login_attempts |-> 0, locked_until |-> Null, last_login |-> t],
        token |-> Jwt(user.id, t)]

\* LoginOutcome counting from zero once an earlier lock has run out.
LoginOutcome_ResetsOnExpiry(user, password, t) ==
  IF user.id = NoUser
  THEN [resp |-> InvalidCredentials, values |-> <<>>, token |-> NoJwt]
  ELSE IF user.locked_until # Null /\ user.locked_until > t
  THEN [resp |-> AccountLocked, values |-> <<>>, token |-> NoJwt]
  ELSE IF ~Compare(password, user.password_hash)
  THEN LET loginAttempts == IF user.locked_until # Null THEN 1
                            ELSE user.login_attempts + 1 IN
       [resp |-> InvalidCredentials,
        values |-> IF loginAttempts >= MaxAttempts
                   THEN [login_attempts |-> loginAttempts,
                         locked_until |-> t + LockoutTime]
                   ELSE [login_attempts |-> loginAttempts],
        token |-> NoJwt]
  ELSE [resp |-> LoginSuccessful,
        values |-> [login_attempts |-> 0, locked_until |-> Null, last_login |-> t],
        token |-> Jwt(user.id, t)]

\* LoginOutcome recording the lockout in the status field as well.
LoginOutcome_LocksStatus(user, password, t) ==
  IF user.id = NoUser
  THEN [resp |-> InvalidCredentials, values |-> <<>>, token |-> NoJwt]
  ELSE IF user.locked_until # Null /\ user.locked_until > t
  THEN [resp |-> AccountLocked, values |-> <<>>, token |-> NoJwt]
  ELSE IF ~Compare(password, user.password_hash)
  THEN LET loginAttempts == user.login_attempts + 1 IN
       [resp |-> InvalidCredentials,
        values |-> IF loginAttempts >= MaxAttempts
                   THEN [login_attempts |-> loginAttempts,
                         locked_until |-> t + LockoutTime,
                         status |-> "locked"]
                   ELSE [login_attempts |-> loginAttempts],
        token |-> NoJwt]
  ELSE [resp |-> LoginSuccessful,
        values |-> [login_attempts |-> 0, locked_until |-> Null, last_login |-> t],
        token |-> Jwt(user.id, t)]

\* LoginOutcome signing the token before the lock check.
LoginOutcome_TokenWhenLocked(user, password, t) ==
  IF user.id = NoUser
  THEN [resp |-> InvalidCredentials, values |-> <<>>, token |-> NoJwt]
  ELSE IF user.locked_until # Null /\ user.locked_until > t
  THEN [resp |-> AccountLocked, values |-> <<>>, token |-> Jwt(user.id, t)]
  ELSE IF ~Compare(password, user.password_hash)
  THEN LET loginAttempts == user.login_attempts + 1 IN
       [resp |-> InvalidCredentials,
        values |-> IF loginAttempts >= MaxAttempts
                   THEN [login_attempts |-> loginAttempts,
                         locked_until |-> t + LockoutTime]
                   ELSE [login_attempts |-> loginAttempts],
        token |-> NoJwt]
  ELSE [resp |-> LoginSuccessful,
        values |-> [login_attempts |-> 0, locked_until |-> Null, last_login |-> t],
        token |-> Jwt(user.id, t)]

\* LoginOutcome whose success clears the lock-expiry and keeps the counter.
LoginOutcome_ClearsLockOnly(user, password, t) ==
  IF user.id = NoUser
  THEN [resp |-> InvalidCredentials, values |-> <<>>, token |-> NoJwt]
  ELSE IF user.locked_until # Null /\ user.locked_until > t
  THEN [resp |-> AccountLocked, values |-> <<>>, token |-> NoJwt]
  ELSE IF ~Compare(password, user.password_hash)
  THEN LET loginAttempts == user.login_attempts + 1 IN
       [resp |-> InvalidCredentials,
        values |-> IF loginAttempts >= MaxAttempts
                   THEN [login_attempts |-> loginAttempts,
                         locked_until |-> t + LockoutTime]
                   ELSE [login_attempts |-> loginAttempts],
        token |-> NoJwt]
  ELSE [resp |-> LoginSuccessful,
        values |-> [locked_until |-> Null, last_login |-> t],
        token |-> Jwt(user.id, t)]

\* The handler after findOne, on the row it read: the response, the values
\* handed to user.update and the token returned.
LoginOutcome(user, password, t) ==
  IF user.id = NoUser
  THEN [resp |-> InvalidCredentials, values |-> <<>>, token |-> NoJwt]
  ELSE IF user.locked_until # Null /\ user.locked_until > t
  THEN [resp |-> AccountLocked, values |-> <<>>, token |-> NoJwt]
  ELSE IF ~Compare(password, user.password_hash)
  THEN LET loginAttempts == user.login_attempts + 1 IN
       [resp |-> InvalidCredentials,
        values |-> IF loginAttempts >= MaxAttempts
                   THEN [login_attempts |-> loginAttempts,
                         locked_until |-> t + LockoutTime]
                   ELSE [login_attempts |-> loginAttempts],
        token |-> NoJwt]
  ELSE [resp |-> LoginSuccessful,
        values |-> [login_attempts |-> 0, locked_until |-> Null, last_login |-> t],
        token |-> Jwt(user.id, t)]

----------------------------------------------------------------------------
(* POST /auth/reset-password and POST /auth/reset-password/:token *)

ResetUnknown ==
  Response(200, "If the email exists, a reset link has been sent", {"message"})
ResetGenerated ==
  Response(200, "Password reset token generated", {"message", "resetToken"})
ResetSuccessful == Response(200, "Password reset successful", {"message"})
InvalidOrExpiredToken == Response(400, "Invalid or expired reset token", {"message"})

ResetRequestOutcome(user, resetToken, t) ==
  IF user.id = NoUser
  THEN [resp |-> ResetUnknown, values |-> <<>>]
  ELSE [resp |-> ResetGenerated,
        values |-> [reset_password_token |-> resetToken,
                    reset_password_expires |-> t + ResetLifetime]]

\* routes/auth.js imports express, bcrypt, jwt, crypto, body, the models and the
\* two middlewares, and not Op: evaluating Op.gt throws a ReferenceError.
OpImported == FALSE

\* User.findOne({ where: { reset_password_token, reset_password_expires > now } })
FindByResetToken(table, token, t) ==
  LET found == {id \in UserIds :
                  /\ table[id].exists
                  /\ table[id].reset_password_token = token
                  /\ table[id].reset_password_expires > t}
  IN IF found = {} THEN NullUser ELSE table[CHOOSE id \in found : TRUE]

ResetConfirmOutcome(table, token, password, t) ==
  IF ~OpImported
  THEN [resp |-> InternalError, user |-> NullUser, values |-> <<>>]
  ELSE LET user == FindByResetToken(table, token, t) IN
       IF user.id = NoUser
       THEN [resp |-> InvalidOrExpiredToken, user |-> NullUser, values |-> <<>>]
       ELSE [resp |-> ResetSuccessful, user |-> user,
             values |-> [password_hash |-> Hash(password),
                         reset_password_token |-> NoToken,
                         reset_password_expires |-> Null,
                         login_attempts |-> 0, locked_until |-> Null]]

----------------------------------------------------------------------------
(* Roles and permissions *)

RoleIds == 1 .. MaxRoles

NullRole == [id |-> NoRole]

RoleRow(id, name, is_system_role) ==
  [id |-> id, exists |-> TRUE, name |-> name, is_system_role |-> is_system_role]

\* One row of table RolePermission; the flags default to false.
PermissionRow(role_id, module, flags) ==
  [role_id |-> role_id, module |-> module,
   can_create |-> "create" \in flags, can_read |-> "read" \in flags,
   can_update |-> "update" \in flags, can_delete |-> "delete" \in flags]

PermissionsOf(table, role_id) == {row \in table : row.role_id = role_id}

\* seedDatabase: Super Admin with every flag on every module, User with read on
\* the dashboard; superadmin (id 1) and user.
\* An id that AUTO_INCREMENT has not handed out yet.
UnusedRole == [RoleRow(NoRole, "", FALSE) EXCEPT !.exists = FALSE]

SeedRoles ==
  [id \in RoleIds |->
     IF id = 1 THEN RoleRow(1, SuperAdminName, TRUE)
     ELSE IF id = 2 THEN RoleRow(2, "User", FALSE)
     ELSE UnusedRole]

SeedPermissions ==
  {PermissionRow(1, module, CrudActions) : module \in Modules}
    \cup {PermissionRow(2, "dashboard", {"read"})}

SeedUsers == [id \in UserIds |-> UserRow(id, id)]

----------------------------------------------------------------------------
(* middleware/auth.js: authenticateJWT, authorize *)

\* What the Authorization header carries.
MissingHeader == [kind |-> "missing", jwt |-> NoJwt]
NonBearerHeader == [kind |-> "nonBearer", jwt |-> NoJwt]
MalformedToken == [kind |-> "malformed", jwt |-> NoJwt]
ForgedToken(userId, t) == [kind |-> "forged", jwt |-> Jwt(userId, t)]
SignedToken(jwt) == [kind |-> "signed", jwt |-> jwt]

Passed == 0           \* next() was called: no response yet

Verdict(status, message, user) ==
  [status |-> status, message |-> message, user |-> user]

\* User.findByPk(id, { include: role -> permissions })
FindByPkWithRole(userTable, roleTable, permTable, id) ==
  IF id \notin UserIds \/ ~userTable[id].exists THEN NullUser
  ELSE LET row == userTable[id]
           role == IF row.role_id \in RoleIds /\ roleTable[row.role_id].exists
                   THEN [id |-> row.role_id,
                         name |-> roleTable[row.role_id].name,
                         permissions |-> PermissionsOf(permTable, row.role_id)]
                   ELSE NullRole
       IN [id |-> id, status |-> row.status, role |-> role]

\* jwt.verify throws TokenExpiredError once the clock has reached exp.
\* authenticateJWT without the status checks: any existing principal passes.
authenticateJWT_NoStatusCheck(header, userTable, roleTable, permTable, t) ==
  IF header.kind \in {"missing", "nonBearer"}
  THEN Verdict(401, "Access token required", NullUser)
  ELSE IF header.kind \in {"malformed", "forged"}
  THEN Verdict(401, "Invalid token", NullUser)
  ELSE IF t >= header.jwt.exp
  THEN Verdict(401, "Token expired", NullUser)
  ELSE LET user == FindByPkWithRole(userTable, roleTable, permTable, header.jwt.userId) IN
       IF user.id = NoUser THEN Verdict(401, "User not found", NullUser)
       ELSE Verdict(Passed, "", user)

\* authenticateJWT taking a token signed with another secret for a signed one.
authenticateJWT_NoSignatureCheck(header, userTable, roleTable, permTable, t) ==
  IF header.kind \in {"missing", "nonBearer"}
  THEN Verdict(401, "Access token required", NullUser)
  ELSE IF header.kind = "malformed"
  THEN Verdict(401, "Invalid token", NullUser)
  ELSE IF t >= header.jwt.exp
  THEN Verdict(401, "Token expired", NullUser)
  ELSE LET user == FindByPkWithRole(userTable, roleTable, permTable, header.jwt.userId) IN
       IF user.id = NoUser THEN Verdict(401, "User not found", NullUser)
       ELSE IF user.status = "locked" THEN Verdict(423, "Account is locked", NullUser)
       ELSE IF user.status = "inactive" THEN Verdict(403, "Account is inactive", NullUser)
       ELSE Verdict(Passed, "", user)

\* authenticateJWT turning away a principal whose lock-expiry lies in the future.
authenticateJWT_ChecksLockExpiry(header, userTable, roleTable, permTable, t) ==
  IF header.kind \in {"missing", "nonBearer"}
  THEN Verdict(401, "Access token required", NullUser)
  ELSE IF header.kind \in {"malformed", "forged"}
  THEN Verdict(401, "Invalid token", NullUser)
  ELSE IF t >= header.jwt.exp
  THEN Verdict(401, "Token expired", NullUser)
  ELSE LET user == FindByPkWithRole(userTable, roleTable, permTable, header.jwt.userId) IN
       IF user.id = NoUser THEN Verdict(401, "User not found", NullUser)
       ELSE IF user.status = "locked" THEN Verdict(423, "Account is locked", NullUser)
       ELSE IF user.status = "inactive" THEN Verdict(403, "Account is inactive", NullUser)
       ELSE IF userTable[user.id].locked_until # Null /\ userTable[user.id].locked_until > t
       THEN Verdict(423, "Account is locked", NullUser)
       ELSE Verdict(Passed, "", user)

\* authenticateJWT with a verification that allows one tick past the expiry.
authenticateJWT_LateExpiry(header, userTable, roleTable, permTable, t) ==
  IF header.kind \in {"missing", "nonBearer"}
  THEN Verdict(401, "Access token required", NullUser)
  ELSE IF header.kind \in {"malformed", "forged"}
  THEN Verdict(401, "Invalid token", NullUser)
  ELSE IF t > header.jwt.exp + 1
  THEN Verdict(401, "Token expired", NullUser)
  ELSE LET user == FindByPkWithRole(userTable, roleTable, permTable, header.jwt.userId) IN
       IF user.id = NoUser THEN Verdict(401, "User not found", NullUser)
       ELSE IF user.status = "locked" THEN Verdict(423, "Account is locked", NullUser)
       ELSE IF user.status = "inactive" THEN Verdict(403, "Account is inactive", NullUser)
       ELSE Verdict(Passed, "", user)

authenticateJWT(header, userTable, roleTable, permTable, t) ==
  IF header.kind \in {"missing", "nonBearer"}
  THEN Verdict(401, "Access token required", NullUser)
  ELSE IF header.kind \in {"malformed", "forged"}
  THEN Verdict(401, "Invalid token", NullUser)
  ELSE IF t >= header.jwt.exp
  THEN Verdict(401, "Token expired", NullUser)
  ELSE LET user == FindByPkWithRole(userTable, roleTable, permTable, header.jwt.userId) IN
       IF user.id = NoUser THEN Verdict(401, "User not found", NullUser)
       ELSE IF user.status = "locked" THEN Verdict(423, "Account is locked", NullUser)
       ELSE IF user.status = "inactive" THEN Verdict(403, "Account is inactive", NullUser)
       ELSE Verdict(Passed, "", user)

\* PermissionFlag reading can_read whatever the action.
PermissionFlag_AlwaysRead(modulePermission, action) == modulePermission.can_read

\* modulePermission[`can_${action}`]: undefined, so falsy, for a key the row lacks.
PermissionFlag(modulePermission, action) ==
  LET permissionKey == "can_" \o action IN
  IF permissionKey \in DOMAIN modulePermission
  THEN modulePermission[permissionKey] ELSE FALSE

\* authorize letting a role without a row for the module through.
authorize_MissingRowAllows(user, module, action) ==
  IF user.id = NoUser \/ user.role.id = NoRole
  THEN Verdict(403, "Access denied: No role assigned", user)
  ELSE IF user.role.name = SuperAdminName
  THEN Verdict(Passed, "", user)
  ELSE LET found == {row \in user.role.permissions : row.module = module} IN
       IF found = {}
       THEN Verdict(Passed, "", user)
       ELSE IF ~PermissionFlag(CHOOSE row \in found : TRUE, action)
       THEN Verdict(403, "Access denied: Cannot action module", user)
       ELSE Verdict(Passed, "", user)

\* authorize without the super-admin bypass: the table decides for every role.
authorize_NoBypass(user, module, action) ==
  IF user.id = NoUser \/ user.role.id = NoRole
  THEN Verdict(403, "Access denied: No role assigned", user)
  ELSE LET found == {row \in user.role.permissions : row.module = module} IN
       IF found = {}
       THEN Verdict(403, "Access denied: No permissions for module", user)
       ELSE IF ~PermissionFlag(CHOOSE row \in found : TRUE, action)
       THEN Verdict(403, "Access denied: Cannot action module", user)
       ELSE Verdict(Passed, "", user)

authorize(user, module, action) ==
  IF user.id = NoUser \/ user.role.id = NoRole
  THEN Verdict(403, "Access denied: No role assigned", user)
  ELSE IF user.role.name = SuperAdminName
  THEN Verdict(Passed, "", user)
  ELSE LET found == {row \in user.role.permissions : row.module = module} IN
       IF found = {}
       THEN Verdict(403, "Access denied: No permissions for module", user)
       ELSE IF ~PermissionFlag(CHOOSE row \in found : TRUE, action)
       THEN Verdict(403, "Access denied: Cannot action module", user)
       ELSE Verdict(Passed, "", user)

----------------------------------------------------------------------------
(* State after migration and seeding *)

Procs == 1 .. 2

NoRoute == [name |-> "none", module |-> "", action |-> ""]

\* req.body.permissions: an array of { module, can_* } or something else.
NotAnArray == [isArray |-> FALSE, items |-> <<>>]
Array(items) == [isArray |-> TRUE, items |-> items]
Item(module, flags) == [module |-> module, flags |-> flags]

\* A request: where it stands in the middleware chain or in its handler, what
\* authenticateJWT attached as req.user, the status sent, whether the handler
\* ran; the row a login read and the password it carries; for a permission
\* replace, the body, the role and (observer) its rows before and as asked.
IdleReq ==
  [phase |-> "idle", header |-> MissingHeader, route |-> NoRoute,
   user |-> NullUser, status |-> Passed, message |-> "", handled |-> FALSE,
   found |-> NullUser, password |-> "",
   permissions |-> NotAnArray, target |-> NoRole, oldSet |-> {}, newSet |-> {},
   lockSeen |-> Null, body |-> <<>>]

BogusToken == MaxTokens + 1     \* a token string the server never generated

LastNone ==
  [op |-> "none", uid |-> NoUser, resp |-> Response(0, "", {}),
   pwOk |-> FALSE, inWindow |-> FALSE, failNo |-> 0,
   token |-> NoToken, live |-> FALSE, hashChanged |-> FALSE,
   attemptsBefore |-> 0, lockBefore |-> Null]

Init ==
  /\ users = SeedUsers
  /\ roles = SeedRoles
  /\ perms = SeedPermissions
  /\ now = 0
  /\ nextToken = 1
  /\ held = [id \in UserIds |-> [jwt |-> NoJwt, issuedTo |-> ""]]
  /\ reqs = [p \in Procs |-> IdleReq]
  /\ last = LastNone
  /\ track = [id \in UserIds |-> [streak |-> 0, lockStart |-> Null]]
  /\ resetSeen = {}
  /\ consumed = {}

Min(a, b) == IF a < b THEN a ELSE b

\* The clock advances between requests.
Tick ==
  /\ now < MaxTime
  /\ now' = now + 1
  /\ UNCHANGED <<users, roles, perms, nextToken, held, reqs, last, track, resetSeen, consumed>>

----------------------------------------------------------------------------
(* The /auth routes, one request at a time *)

\* The consecutive failed logins (401 for an existing principal) since the
\* principal was last open (seeded, logged in or reset), and the time the streak
\* reached the threshold: the window in which the specification wants 423.
InWindow(id, t) ==
  /\ id # NoUser
  /\ track[id].streak = MaxAttempts
  /\ t < track[id].lockStart + LockoutTime

Tracked(id, status, t) ==
  IF id = NoUser THEN track
  ELSE IF status = 200 THEN [track EXCEPT ![id] = [streak |-> 0, lockStart |-> Null]]
  ELSE IF status = 401
  THEN [track EXCEPT ![id] =
          [streak |-> Min(@.streak + 1, MaxAttempts + 1),
           lockStart |-> IF @.streak + 1 = MaxAttempts THEN t ELSE @.lockStart]]
  ELSE track

Login(email, password) ==
  LET user == FindByEmail(users, email)
      out == LoginOutcome(user, password, now)
      pwOk == user.id # NoUser /\ Compare(password, user.password_hash)
      inWindow == InWindow(user.id, now)
  IN /\ users' = InstanceUpdate(users, user, out.values)
     /\ held' = IF out.token = NoJwt THEN held
                ELSE [held EXCEPT ![user.id] =
                        [jwt |-> out.token, issuedTo |-> user.status]]
     /\ track' = Tracked(user.id, out.resp.status, now)
     /\ last' = [LastNone EXCEPT !.op = "login", !.uid = user.id,
                   !.resp = out.resp, !.pwOk = pwOk, !.inWindow = inWindow,
                   !.failNo = IF user.id = NoUser \/ pwOk THEN 0
                              ELSE IF track[user.id].streak >= MaxAttempts THEN 0
                              ELSE track[user.id].streak + 1,
                   !.attemptsBefore = IF user.id = NoUser THEN 0
                                      ELSE user.login_attempts,
                   !.lockBefore = IF user.id = NoUser THEN Null
                                  ELSE user.locked_until]
     /\ UNCHANGED <<roles, perms, now, nextToken, reqs, resetSeen, consumed>>

ResetRequest(email) ==
  LET user == FindByEmail(users, email)
      out == ResetRequestOutcome(user, nextToken, now)
  IN /\ user.id # NoUser => nextToken <= MaxTokens
     /\ users' = InstanceUpdate(users, user, out.values)
     /\ nextToken' = IF user.id = NoUser THEN nextToken ELSE nextToken + 1
     /\ resetSeen' = resetSeen \cup {[known |-> user.id # NoUser, resp |-> out.resp]}
     /\ last' = [LastNone EXCEPT !.op = "resetRequest", !.uid = user.id,
                   !.resp = out.resp]
     /\ UNCHANGED <<roles, perms, now, held, reqs, track, consumed>>

ResetConfirm(token, password) ==
  LET out == ResetConfirmOutcome(users, token, password, now)
      ok == out.resp.status = 200
  IN /\ users' = InstanceUpdate(users, out.user, out.values)
     /\ consumed' = IF ok THEN consumed \cup {token} ELSE consumed
     /\ track' = IF ok THEN [track EXCEPT ![out.user.id] =
                               [streak |-> 0, lockStart |-> Null]]
                 ELSE track
     /\ last' = [LastNone EXCEPT !.op = "resetConfirm", !.uid = out.user.id,
                   !.resp = out.resp, !.token = token,
                   !.live = FindByResetToken(users, token, now).id # NoUser,
                   !.hashChanged =
                     \E id \in UserIds :
                       users'[id].password_hash # users[id].password_hash]
     /\ UNCHANGED <<roles, perms, now, nextToken, held, reqs, resetSeen>>

\* The requests of this specification name user 1 or nobody; user 2 looks on.
AuthEmails == {0, 1}

NextAuth ==
  \/ Tick
  \/ \E email \in AuthEmails, password \in Passwords : Login(email, password)
  \/ \E email \in AuthEmails : ResetRequest(email)
  \/ \E token \in (1 .. nextToken - 1) \cup {BogusToken}, password \in Passwords :
       ResetConfirm(token, password)

SpecAuth == Init /\ [][NextAuth]_vars

----------------------------------------------------------------------------
(* Guarded routes: router.use(authenticateJWT), then authorize(module, action),
   then the handler *)

Route(name, module, action) == [name |-> name, module |-> module, action |-> action]

\* A route with an empty handler under authorize(module, action), for every
\* module and action the guard can be built with, the unknown ones included.
ProbeModules == Modules \cup {"billing"}
ProbeActions == CrudActions \cup {"export"}
ProbeRoutes == {Route("probe", module, action) :
                  module \in ProbeModules, action \in ProbeActions}

PutRolePermissions == Route("PUT /roles/:id/permissions", "roles", "update")
PutUser == Route("PUT /users/:id", "users", "update")
DeleteUserRoute == Route("DELETE /users/:id", "users", "delete")

\* The Authorization headers a client can send: none, garbage, a token signed
\* with another secret, or a token a login returned.
Headers ==
  {MissingHeader, NonBearerHeader, MalformedToken}
    \cup {ForgedToken(1, now)}
    \cup {SignedToken(held[id].jwt) : id \in {i \in UserIds : held[i].jwt # NoJwt}}

Idle(p) == reqs[p].phase \in {"idle", "done"}

\* The permission replaces that stand between their destroy and their insert
\* on the role of the principal that authenticateJWT loads.
ReplacingRoleOf(user) ==
  {r \in Procs : /\ reqs[r].phase = "replacing"
                 /\ user.id # NoUser
                 /\ user.role.id = reqs[r].target}

Authenticate(p, header, route) ==
  LET verdict == authenticateJWT(header, users, roles, perms, now)
      during == ReplacingRoleOf(verdict.user)
      writer == CHOOSE r \in during : TRUE
  IN
  /\ Idle(p)
  /\ reqs' = [reqs EXCEPT ![p] =
                [IdleReq EXCEPT
                   !.phase = IF verdict.status = Passed THEN "authenticated" ELSE "done",
                   !.header = header, !.route = route,
                   !.user = verdict.user, !.status = verdict.status,
                   !.message = verdict.message,
                   !.lockSeen = IF verdict.user.id = NoUser THEN Null
                                ELSE users[verdict.user.id].locked_until,
                   !.target = IF during = {} THEN NoRole ELSE reqs[writer].target,
                   !.oldSet = IF during = {} THEN {} ELSE reqs[writer].oldSet,
                   !.newSet = IF during = {} THEN {} ELSE reqs[writer].newSet]]
  /\ UNCHANGED <<users, roles, perms, now, nextToken, held, last, track, resetSeen, consumed>>

Authorize(p) ==
  LET verdict == authorize(reqs[p].user, reqs[p].route.module, reqs[p].route.action) IN
  /\ reqs[p].phase = "authenticated"
  /\ reqs' = [reqs EXCEPT ![p].phase =
                           IF verdict.status = Passed THEN "authorized" ELSE "done",
                         ![p].status = verdict.status,
                         ![p].message = verdict.message]
  /\ UNCHANGED <<users, roles, perms, now, nextToken, held, last, track, resetSeen, consumed>>

Probe(p) ==
  /\ reqs[p].phase = "authorized"
  /\ reqs[p].route \in ProbeRoutes
  /\ reqs' = [reqs EXCEPT ![p].phase = "done", ![p].status = 200, ![p].handled = TRUE]
  /\ UNCHANGED <<users, roles, perms, now, nextToken, held, last, track, resetSeen, consumed>>

----------------------------------------------------------------------------
(* PUT /roles/:id/permissions *)

PermissionData(role_id, items) ==
  {PermissionRow(role_id, items[i].module, items[i].flags) : i \in DOMAIN items}

\* RolePermission.destroy({ where: { role_id } })
DestroyPermissions(table, role_id) == {row \in table : row.role_id # role_id}

\* RolePermission without its unique index on (role_id, module).
BulkCreate_NoUniqueIndex(table, role_id, items) ==
  [ok |-> TRUE, table |-> table \cup PermissionData(role_id, items)]

\* RolePermission.bulkCreate(rows): one INSERT; the unique index on
\* (role_id, module) rejects it as a whole.
BulkCreate(table, role_id, items) ==
  LET duplicate ==
        \/ \E i, j \in DOMAIN items : i # j /\ items[i].module = items[j].module
        \/ \E i \in DOMAIN items, row \in table :
             row.role_id = role_id /\ row.module = items[i].module
  IN IF duplicate THEN [ok |-> FALSE, table |-> table]
     ELSE [ok |-> TRUE, table |-> table \cup PermissionData(role_id, items)]

\* RoleCheck without the refusal of system roles.
RoleCheck_NoSystemCheck(roleTable, id) ==
  IF id \notin RoleIds \/ ~roleTable[id].exists THEN 404
  ELSE Passed

\* Role.findByPk and the two checks that open the handler.
RoleCheck(roleTable, id) ==
  IF id \notin RoleIds \/ ~roleTable[id].exists THEN 404
  ELSE IF roleTable[id].is_system_role THEN 403
  ELSE Passed

\* The handler after the destroy: the insert, if an array came, and the answer.
CreatePermissions(destroyed, id, permissions) ==
  IF ~permissions.isArray THEN [status |-> 200, table |-> destroyed]
  ELSE LET created == BulkCreate(destroyed, id, permissions.items) IN
       IF created.ok THEN [status |-> 200, table |-> created.table]
       ELSE [status |-> 500, table |-> created.table]

\* The whole handler: the status it sends and the table it leaves.
ReplacePermissionsOutcome(roleTable, permTable, id, permissions) ==
  IF RoleCheck(roleTable, id) # Passed
  THEN [status |-> RoleCheck(roleTable, id), table |-> permTable]
  ELSE CreatePermissions(DestroyPermissions(permTable, id), id, permissions)

\* The bodies tried: no array, an empty one, one row, two rows, one row with no
\* flag set, and a body that names a module twice.
PermissionBodies ==
  {NotAnArray,
   Array(<<>>),
   Array(<<Item("users", {"read"})>>),
   Array(<<Item("dashboard", {"read"}), Item("roles", {"read", "update"})>>),
   Array(<<Item("dashboard", {})>>),
   Array(<<Item("users", {"read"}), Item("users", {"create"})>>)}

ReplacePermissions(p, id, permissions) ==
  LET out == ReplacePermissionsOutcome(roles, perms, id, permissions) IN
  /\ reqs[p].phase = "authorized"
  /\ reqs[p].route = PutRolePermissions
  /\ perms' = out.table
  /\ reqs' = [reqs EXCEPT ![p].phase = "done", ![p].status = out.status,
                         ![p].handled = TRUE, ![p].target = id,
                         ![p].permissions = permissions,
                         ![p].oldSet = PermissionsOf(perms, id),
                         ![p].newSet = PermissionData(id, permissions.items)]
  /\ UNCHANGED <<users, roles, now, nextToken, held, last, track, resetSeen, consumed>>

\* Logins with the right password, to obtain session tokens.
LoginOk == \E email \in UserIds : Login(email, SeedPassword)

NextPerm ==
  \/ LoginOk
  \/ \E header \in Headers, route \in ProbeRoutes \cup {PutRolePermissions} :
       Authenticate(1, header, route)
  \/ Authorize(1)
  \/ Probe(1)
  \/ \E id \in RoleIds, permissions \in PermissionBodies :
       ReplacePermissions(1, id, permissions)

SpecPerm == Init /\ [][NextPerm]_vars

----------------------------------------------------------------------------
(* PUT /users/:id and DELETE /users/:id *)

\* The foreign key of User.role_id rejects a role that does not exist.
RoleMissing(roleTable, body) ==
  /\ "role_id" \in DOMAIN body
  /\ (body.role_id \notin RoleIds \/ ~roleTable[body.role_id].exists)

\* The handler of PUT /users/:id: user.update(req.body) with no check of the body.
UpdateUserOutcome(table, roleTable, id, body) ==
  IF id \notin UserIds \/ ~table[id].exists
  THEN [status |-> 404, table |-> table]
  ELSE IF RoleMissing(roleTable, body)
  THEN [status |-> 500, table |-> table]
  ELSE [status |-> 200, table |-> InstanceUpdate(table, table[id], body)]

\* The handler of DELETE /users/:id: user 1 stays.
DeleteUserOutcome(table, id) ==
  IF id \notin UserIds \/ ~table[id].exists
  THEN [status |-> 404, table |-> table]
  ELSE IF id = 1
  THEN [status |-> 403, table |-> table]
  ELSE [status |-> 200,
        table |-> [table EXCEPT ![id] =
                     [UserRow(id, @.role_id) EXCEPT !.exists = FALSE]]]

\* PUT /users/:id registered without authorize in its middleware list.
UpdateUser_NoAuthorize(p, id, body) ==
  LET out == UpdateUserOutcome(users, roles, id, body) IN
  /\ reqs[p].phase \in {"authenticated", "authorized"}
  /\ reqs[p].route = PutUser
  /\ users' = out.table
  /\ reqs' = [reqs EXCEPT ![p].phase = "done", ![p].status = out.status,
                         ![p].handled = TRUE]
  /\ UNCHANGED <<roles, perms, now, nextToken, held, last, track, resetSeen, consumed>>

UpdateUser(p, id, body) ==
  LET out == UpdateUserOutcome(users, roles, id, body) IN
  /\ reqs[p].phase = "authorized"
  /\ reqs[p].route = PutUser
  /\ users' = out.table
  /\ reqs' = [reqs EXCEPT ![p].phase = "done", ![p].status = out.status,
                         ![p].handled = TRUE]
  /\ UNCHANGED <<roles, perms, now, nextToken, held, last, track, resetSeen, consumed>>

DeleteUser(p, id) ==
  LET out == DeleteUserOutcome(users, id) IN
  /\ reqs[p].phase = "authorized"
  /\ reqs[p].route = DeleteUserRoute
  /\ users' = out.table
  /\ reqs' = [reqs EXCEPT ![p].phase = "done", ![p].status = out.status,
                         ![p].handled = TRUE]
  /\ UNCHANGED <<roles, perms, now, nextToken, held, last, track, resetSeen, consumed>>

Statuses == {"active", "inactive", "locked"}

GuardRoutes ==
  {Route("probe", "dashboard", "read"), PutUser, DeleteUserRoute}

NextGuard ==
  \/ Tick
  \/ LoginOk
  \/ \E header \in Headers, route \in GuardRoutes : Authenticate(1, header, route)
  \/ Authorize(1)
  \/ Probe(1)
  \/ \E id \in UserIds, status \in Statuses : UpdateUser(1, id, [status |-> status])
  \/ \E id \in UserIds : DeleteUser(1, id)

SpecGuard == Init /\ [][NextGuard]_vars

----------------------------------------------------------------------------
(* PUT /roles/:id and DELETE /roles/:id *)

SignedHeaders ==
  {SignedToken(held[id].jwt) : id \in {i \in UserIds : held[i].jwt # NoJwt}}

\* Bodies with a non-empty set of distinct modules.
ValidBodies ==
  {Array(<<Item("users", {"read"})>>),
   Array(<<Item("dashboard", {"read"}), Item("roles", {"read", "update"})>>)}

PutRole == Route("PUT /roles/:id", "roles", "update")
DeleteRoleRoute == Route("DELETE /roles/:id", "roles", "delete")

PostRole == Route("POST /roles", "roles", "create")

\* Role.name without its unique index.
NameTaken_NoUniqueIndex(roleTable, id, body) == FALSE

\* The unique index on Role.name rejects a name another role carries.
NameTaken(roleTable, id, body) ==
  /\ "name" \in DOMAIN body
  /\ \E other \in RoleIds \ {id} :
       roleTable[other].exists /\ roleTable[other].name = body.name

\* The handler of PUT /roles/:id: role.update(req.body without permissions),
\* with no check of the fields named.
UpdateRoleOutcome(roleTable, id, body) ==
  IF id \notin RoleIds \/ ~roleTable[id].exists
  THEN [status |-> 404, table |-> roleTable]
  ELSE IF roleTable[id].is_system_role
  THEN [status |-> 403, table |-> roleTable]
  ELSE IF NameTaken(roleTable, id, body)
  THEN [status |-> 500, table |-> roleTable]
  ELSE [status |-> 200, table |-> InstanceUpdate(roleTable, roleTable[id], body)]

\* role.users of Role.findByPk(id, { include: users })
UsersOf(userTable, role_id) ==
  {id \in UserIds : userTable[id].exists /\ userTable[id].role_id = role_id}

\* Role.findByPk with the role's users and the three checks of DELETE /roles/:id.
DeleteRoleCheck(roleTable, userTable, id) ==
  IF id \notin RoleIds \/ ~roleTable[id].exists THEN 404
  ELSE IF roleTable[id].is_system_role THEN 403
  ELSE IF UsersOf(userTable, id) # {} THEN 400
  ELSE Passed

\* role.destroy() and the answer: the foreign key of User.role_id refuses the
\* delete while a user row names the role (the handler's catch answers 500);
\* the foreign key that Role.hasMany adds to RolePermission.role_id (not
\* nullable) deletes the role's rows with it.
DestroyRole(roleTable, userTable, permTable, id) ==
  IF UsersOf(userTable, id) # {}
  THEN [status |-> 500, roles |-> roleTable, perms |-> permTable]
  ELSE [status |-> 200,
        roles |-> [roleTable EXCEPT ![id] =
                     [RoleRow(id, "", FALSE) EXCEPT !.exists = FALSE]],
        perms |-> DestroyPermissions(permTable, id)]

\* The whole handler of DELETE /roles/:id.
DeleteRoleOutcome(roleTable, userTable, permTable, id) ==
  IF DeleteRoleCheck(roleTable, userTable, id) # Passed
  THEN [status |-> DeleteRoleCheck(roleTable, userTable, id),
        roles |-> roleTable, perms |-> permTable]
  ELSE DestroyRole(roleTable, userTable, permTable, id)

\* The ids AUTO_INCREMENT can still hand out, and the next one.
FreeRoleIds(roleTable) == {id \in RoleIds : roleTable[id].id = NoRole}
NextRoleId(roleTable) ==
  CHOOSE id \in FreeRoleIds(roleTable) : \A other \in FreeRoleIds(roleTable) : id <= other

\* Role.create(req.body without permissions); is_system_role defaults to false.
InsertRole(roleTable, body) ==
  IF NameTaken(roleTable, NoRole, body)
  THEN [ok |-> FALSE, id |-> NoRole, table |-> roleTable]
  ELSE LET id == NextRoleId(roleTable) IN
       [ok |-> TRUE, id |-> id,
        table |-> [roleTable EXCEPT ![id] =
                     RoleRow(id, body.name,
                             "is_system_role" \in DOMAIN body /\ body.is_system_role)]]

\* The handler of POST /roles: the role, then its permission rows if an array
\* came, with no transaction around the two inserts.
CreateRoleOutcome(roleTable, permTable, body) ==
  LET inserted == InsertRole(roleTable, body) IN
  IF ~inserted.ok
  THEN [status |-> 500, id |-> NoRole, roles |-> roleTable, perms |-> permTable]
  ELSE LET created == CreatePermissions(permTable, inserted.id, body.permissions) IN
       [status |-> IF created.status = 200 THEN 201 ELSE created.status,
        id |-> inserted.id, roles |-> inserted.table, perms |-> created.table]

CreateRole(p, body) ==
  LET out == CreateRoleOutcome(roles, perms, body) IN
  /\ reqs[p].phase = "authorized"
  /\ reqs[p].route = PostRole
  /\ FreeRoleIds(roles) # {}
  /\ roles' = out.roles
  /\ perms' = out.perms
  /\ reqs' = [reqs EXCEPT ![p].phase = "done", ![p].status = out.status,
                         ![p].handled = TRUE, ![p].target = out.id,
                         ![p].body = body]
  /\ UNCHANGED <<users, now, nextToken, held, last, track, resetSeen, consumed>>

UpdateRole(p, id, body) ==
  LET out == UpdateRoleOutcome(roles, id, body) IN
  /\ reqs[p].phase = "authorized"
  /\ reqs[p].route = PutRole
  /\ roles' = out.table
  /\ reqs' = [reqs EXCEPT ![p].phase = "done", ![p].status = out.status,
                         ![p].handled = TRUE, ![p].target = id,
                         ![p].body = body]
  /\ UNCHANGED <<users, perms, now, nextToken, held, last, track, resetSeen, consumed>>

DeleteRole(p, id) ==
  LET out == DeleteRoleOutcome(roles, users, perms, id) IN
  /\ reqs[p].phase = "authorized"
  /\ reqs[p].route = DeleteRoleRoute
  /\ roles' = out.roles
  /\ perms' = out.perms
  /\ reqs' = [reqs EXCEPT ![p].phase = "done", ![p].status = out.status,
                         ![p].handled = TRUE, ![p].target = id]
  /\ UNCHANGED <<users, now, nextToken, held, last, track, resetSeen, consumed>>

\* The bodies tried on PUT /roles/:id: a new name, the flag of system roles,
\* and the name of the seeded system role.
RoleBodies ==
  {[name |-> "Manager"], [is_system_role |-> TRUE], [name |-> SuperAdminName]}

\* The bodies tried on POST /roles: a new name or the name of the seeded system
\* role, with no permissions, one row, or a module named twice.
CreateBodies ==
  {[name |-> name, permissions |-> permissions] :
     name \in {"Manager", SuperAdminName},
     permissions \in {NotAnArray,
                      Array(<<Item("users", {"read"})>>),
                      Array(<<Item("users", {"read"}), Item("users", {"create"})>>)}}

RoleRoutes == {PutRole, PutRolePermissions, DeleteRoleRoute}

NextRole ==
  \/ LoginOk
  \/ \E header \in SignedHeaders, route \in RoleRoutes \cup {PostRole, DeleteUserRoute} :
       Authenticate(1, header, route)
  \/ Authorize(1)
  \/ \E body \in CreateBodies : CreateRole(1, body)
  \/ \E id \in RoleIds, body \in RoleBodies : UpdateRole(1, id, body)
  \/ \E id \in RoleIds, permissions \in ValidBodies :
       ReplacePermissions(1, id, permissions)
  \/ \E id \in RoleIds : DeleteRole(1, id)
  \/ \E id \in UserIds : DeleteUser(1, id)

SpecRole == Init /\ [][NextRole]_vars

----------------------------------------------------------------------------
(* Logins and guarded requests of one principal *)

NextLockGuard ==
  \/ Tick
  \/ \E password \in Passwords : Login(1, password)
  \/ \E header \in SignedHeaders : Authenticate(1, header, Route("probe", "dashboard", "read"))
  \/ Authorize(1)
  \/ Probe(1)

SpecLockGuard == Init /\ [][NextLockGuard]_vars

----------------------------------------------------------------------------
(* Requests that overlap: each handler advances from one await to the next *)

AllIdle == \A p \in Procs : Idle(p)

\* Handlers take far less than a tick: the clock moves between them.
RaceTick ==
  /\ AllIdle
  /\ now < MaxRaceTime
  /\ now' = now + 1
  /\ UNCHANGED <<users, roles, perms, nextToken, held, reqs, last, track, resetSeen, consumed>>

\* POST /auth/login up to the row that findOne returns.
LoginFind(p, email, password) ==
  /\ Idle(p)
  /\ reqs' = [reqs EXCEPT ![p] =
                [IdleReq EXCEPT !.phase = "login",
                                !.route = Route("POST /auth/login", "", ""),
                                !.found = FindByEmail(users, email),
                                !.password = password]]
  /\ UNCHANGED <<users, roles, perms, now, nextToken, held, last, track, resetSeen, consumed>>

\* The rest of the login, on the row read before: the entry check, the
\* comparison, user.update and the answer.  track counts the failed credential
\* checks per principal.
LoginFinish(p) ==
  LET user == reqs[p].found
      out == LoginOutcome(user, reqs[p].password, now)
      failed == user.id # NoUser /\ out.resp.status = 401
  IN /\ reqs[p].phase = "login"
     /\ users' = InstanceUpdate(users, user, out.values)
     /\ held' = IF out.token = NoJwt THEN held
                ELSE [held EXCEPT ![user.id] =
                        [jwt |-> out.token, issuedTo |-> user.status]]
     /\ track' = IF failed THEN [track EXCEPT ![user.id].streak = @ + 1] ELSE track
     /\ reqs' = [reqs EXCEPT ![p].phase = "done", ![p].status = out.resp.status,
                            ![p].handled = TRUE]
     /\ UNCHANGED <<roles, perms, now, nextToken, last, resetSeen, consumed>>

WrongPassword == "Changed1!"

NextLoginRace ==
  \/ RaceTick
  \/ \E p \in Procs, email \in AuthEmails : LoginFind(p, email, WrongPassword)
  \/ \E p \in Procs : LoginFinish(p)

SpecLoginRace == Init /\ [][NextLoginRace]_vars

\* PUT /roles/:id/permissions up to the destroy.
ReplaceDestroy(p, id, permissions) ==
  LET check == RoleCheck(roles, id) IN
  /\ reqs[p].phase = "authorized"
  /\ reqs[p].route = PutRolePermissions
  /\ perms' = IF check = Passed THEN DestroyPermissions(perms, id) ELSE perms
  /\ reqs' = [reqs EXCEPT ![p].phase = IF check = Passed THEN "replacing" ELSE "done",
                         ![p].status = check,
                         ![p].handled = TRUE, ![p].target = id,
                         ![p].permissions = permissions,
                         ![p].oldSet = PermissionsOf(perms, id),
                         ![p].newSet = PermissionData(id, permissions.items)]
  /\ UNCHANGED <<users, roles, now, nextToken, held, last, track, resetSeen, consumed>>

\* The rest of the replace: bulkCreate and the answer.
ReplaceCreate(p) ==
  LET out == CreatePermissions(perms, reqs[p].target, reqs[p].permissions) IN
  /\ reqs[p].phase = "replacing"
  /\ perms' = out.table
  /\ reqs' = [reqs EXCEPT ![p].phase = "done", ![p].status = out.status]
  /\ UNCHANGED <<users, roles, now, nextToken, held, last, track, resetSeen, consumed>>

NextPermRace ==
  \/ LoginOk
  \/ \E p \in Procs, header \in SignedHeaders,
        route \in {Route("probe", "dashboard", "read"), PutRolePermissions} :
       Authenticate(p, header, route)
  \/ \E p \in Procs : Authorize(p)
  \/ \E p \in Procs : Probe(p)
  \/ \E p \in Procs, id \in RoleIds, permissions \in ValidBodies :
       ReplaceDestroy(p, id, permissions)
  \/ \E p \in Procs : ReplaceCreate(p)

SpecPermRace == Init /\ [][NextPermRace]_vars

\* DELETE /roles/:id up to the checks on the role that findByPk returned.
DeleteRoleFind(p, id) ==
  LET check == DeleteRoleCheck(roles, users, id) IN
  /\ reqs[p].phase = "authorized"
  /\ reqs[p].route = DeleteRoleRoute
  /\ reqs' = [reqs EXCEPT ![p].phase = IF check = Passed THEN "deleting" ELSE "done",
                         ![p].status = check,
                         ![p].handled = TRUE, ![p].target = id]
  /\ UNCHANGED <<users, roles, perms, now, nextToken, held, last, track, resetSeen, consumed>>

\* The rest of the delete: role.destroy() and the answer.
DeleteRoleDestroy(p) ==
  LET out == DestroyRole(roles, users, perms, reqs[p].target) IN
  /\ reqs[p].phase = "deleting"
  /\ roles' = out.roles
  /\ perms' = out.perms
  /\ reqs' = [reqs EXCEPT ![p].phase = "done", ![p].status = out.status]
  /\ UNCHANGED <<users, now, nextToken, held, last, track, resetSeen, consumed>>

NextRoleRace ==
  \/ LoginOk
  \/ \E p \in Procs, header \in SignedHeaders, route \in {DeleteRoleRoute, PutUser} :
       Authenticate(p, header, route)
  \/ \E p \in Procs : Authorize(p)
  \/ \E p \in Procs, id \in RoleIds : DeleteRoleFind(p, id)
  \/ \E p \in Procs : DeleteRoleDestroy(p)
  \/ \E p \in Procs, id \in UserIds, role_id \in RoleIds :
       UpdateUser(p, id, [role_id |-> role_id])

SpecRoleRace == Init /\ [][NextRoleRace]_vars

\* POST /roles up to Role.create.
CreateRoleInsert(p, body) ==
  LET inserted == InsertRole(roles, body) IN
  /\ reqs[p].phase = "authorized"
  /\ reqs[p].route = PostRole
  /\ FreeRoleIds(roles) # {}
  /\ roles' = inserted.table
  /\ reqs' = [reqs EXCEPT ![p].phase = IF inserted.ok THEN "creating" ELSE "done",
                         ![p].status = IF inserted.ok THEN Passed ELSE 500,
                         ![p].handled = TRUE, ![p].target = inserted.id,
                         ![p].permissions = body.permissions,
                         ![p].body = body]
  /\ UNCHANGED <<users, perms, now, nextToken, held, last, track, resetSeen, consumed>>

\* The rest of the creation: bulkCreate, if an array came, and the answer.
CreateRoleRows(p) ==
  LET out == CreatePermissions(perms, reqs[p].target, reqs[p].permissions) IN
  /\ reqs[p].phase = "creating"
  /\ perms' = out.table
  /\ reqs' = [reqs EXCEPT ![p].phase = "done",
                         ![p].status = IF out.status = 200 THEN 201 ELSE out.status]
  /\ UNCHANGED <<users, roles, now, nextToken, held, last, track, resetSeen, consumed>>

\* Bodies of a permission replace: distinct modules, or one module twice.
WriteBodies ==
  ValidBodies \cup {Array(<<Item("users", {"read"}), Item("users", {"create"})>>)}

\* The Super Admin's requests that write permission rows, overlapping.
NextPermWrite ==
  \/ Login(1, SeedPassword)
  \/ \E p \in Procs, header \in SignedHeaders, route \in {PutRolePermissions, PostRole} :
       Authenticate(p, header, route)
  \/ \E p \in Procs : Authorize(p)
  \/ \E p \in Procs, id \in RoleIds, permissions \in WriteBodies :
       ReplaceDestroy(p, id, permissions)
  \/ \E p \in Procs : ReplaceCreate(p)
  \/ \E p \in Procs, body \in CreateBodies : CreateRoleInsert(p, body)
  \/ \E p \in Procs : CreateRoleRows(p)

SpecPermWrite == Init /\ [][NextPermWrite]_vars

----------------------------------------------------------------------------
(* The /auth routes of a principal whose status an administrator sets *)

NextStatus ==
  \/ RaceTick
  \/ held[1].jwt = NoJwt /\ Login(1, SeedPassword)
  \/ held[1].jwt # NoJwt /\ Authenticate(1, SignedToken(held[1].jwt), PutUser)
  \/ Authorize(1)
  \/ \E status \in Statuses : UpdateUser(1, 2, [status |-> status])
  \/ \E password \in Passwords : Login(2, password)
  \/ ResetRequest(2)
  \/ \E token \in (1 .. nextToken - 1) \cup {BogusToken} :
       ResetConfirm(token, "Changed1!")

SpecStatus == Init /\ [][NextStatus]_vars

----------------------------------------------------------------------------
(* Claims on the /auth routes, under SpecAuth *)

\* C2: from counter 0 and no lock, a wrong password that follows fewer than
\* MaxAttempts consecutive failed logins is answered 401, and every login made
\* after the MaxAttempts-th consecutive failure and before its time +
\* LockoutTime is answered 423, whatever password it carries.
C2_LockedAfterThreshold ==
  last.op = "login" =>
    /\ last.failNo \in 1 .. MaxAttempts => last.resp = InvalidCredentials
    /\ last.inWindow => last.resp = AccountLocked

C2_Witness ==
  /\ last.op = "login"
  /\ last.inWindow
  /\ last.pwOk
  /\ last.resp.status = 423

\* C4: the responses of reset-request have one status and one set of body
\* fields, whether or not the email belongs to a principal.
C4_ResetRequestUniform ==
  \A a, b \in resetSeen :
    /\ a.resp.status = 200
    /\ a.resp.status = b.resp.status
    /\ a.resp.fields = b.resp.fields

----------------------------------------------------------------------------
(* Claims on authorize and on the permission replace, under SpecPerm *)

\* A request that authenticateJWT let through and authorize has decided.
Decided(p) ==
  /\ reqs[p].phase \in {"authorized", "done"}
  /\ reqs[p].user.id # NoUser

\* authorize called next(): the request waits for its handler or has run it.
Allowed(p) == reqs[p].phase = "authorized" \/ reqs[p].handled

HasRole(p) == reqs[p].user.role.id # NoRole

IsSuperAdmin(p) == HasRole(p) /\ reqs[p].user.role.name = SuperAdminName

RowsFor(p) ==
  {row \in reqs[p].user.role.permissions : row.module = reqs[p].route.module}

\* C1: a principal whose role is not named 'Super Admin' and has no permission
\* row for the route's module is answered 403 and its handler never runs,
\* whatever the action.
C1_MissingRowDenies ==
  \A p \in Procs :
    (Decided(p) /\ HasRole(p) /\ ~IsSuperAdmin(p) /\ RowsFor(p) = {}) =>
      (reqs[p].status = 403 /\ reqs[p].phase = "done" /\ ~reqs[p].handled)

C1_Witness ==
  \E p \in Procs :
    /\ Decided(p) /\ HasRole(p) /\ ~IsSuperAdmin(p) /\ RowsFor(p) = {}
    /\ reqs[p].route.module \in Modules
    /\ reqs[p].route.action = "read"
    /\ reqs[p].status = 403

\* C9: a principal whose role is named exactly 'Super Admin' passes authorize
\* for every module and every action.
C9_SuperAdminPasses ==
  \A p \in Procs : (Decided(p) /\ IsSuperAdmin(p)) => Allowed(p)

C9_Witness ==
  \E p \in Procs :
    /\ Decided(p) /\ IsSuperAdmin(p)
    /\ reqs[p].route.module = "billing"
    /\ reqs[p].route.action = "export"
    /\ reqs[p].handled

\* The flag of a row that belongs to one of the four actions.
FlagOf(row, action) ==
  CASE action = "create" -> row.can_create
    [] action = "read" -> row.can_read
    [] action = "update" -> row.can_update
    [] action = "delete" -> row.can_delete
    [] OTHER -> FALSE

\* C10: with a row for the module, a role not named 'Super Admin' passes
\* authorize exactly when the action is one of create, read, update, delete and
\* the row's flag for it is set; otherwise the answer is 403.
C10_FlagDecides ==
  \A p \in Procs :
    (Decided(p) /\ HasRole(p) /\ ~IsSuperAdmin(p) /\ RowsFor(p) # {}) =>
      /\ Allowed(p) <=>
           /\ reqs[p].route.action \in CrudActions
           /\ \A row \in RowsFor(p) : FlagOf(row, reqs[p].route.action)
      /\ ~Allowed(p) => reqs[p].status = 403

C10_Witness ==
  \E p \in Procs :
    /\ Decided(p) /\ HasRole(p) /\ ~IsSuperAdmin(p) /\ RowsFor(p) # {}
    /\ reqs[p].route.action = "export"
    /\ \E row \in RowsFor(p) : row.can_read
    /\ reqs[p].status = 403

\* A permission replace that got past the role checks of its handler.
Replaced(p) ==
  /\ reqs[p].route = PutRolePermissions
  /\ reqs[p].handled
  /\ reqs[p].status \notin {403, 404}

\* C3: after a permission replace the role's rows are the new set when it
\* succeeded and the old set when it failed.
C3_ReplaceAllOrNothing ==
  \A p \in Procs :
    Replaced(p) =>
      PermissionsOf(perms, reqs[p].target) =
        IF reqs[p].status = 200 THEN reqs[p].newSet ELSE reqs[p].oldSet

----------------------------------------------------------------------------
(* Claims on authenticateJWT, under SpecGuard *)

\* The step in which slot p takes a new request through authenticateJWT.
Authenticates(p) == Idle(p) /\ reqs'[p] # reqs[p]

\* C6: for a signed, unexpired token the verdict of authenticateJWT follows the
\* row the User table holds at that moment: 401 when it is gone, 423 when its
\* status is locked, 403 when inactive; otherwise the principal is attached and
\* the next guard runs.
C6_RereadsPrincipal ==
  [][\A p \in Procs :
       LET header == reqs'[p].header
           id == header.jwt.userId
       IN (Authenticates(p) /\ header.kind = "signed" /\ now < header.jwt.exp) =>
            IF ~users[id].exists
            THEN reqs'[p].phase = "done" /\ reqs'[p].status = 401
            ELSE IF users[id].status = "locked"
            THEN reqs'[p].phase = "done" /\ reqs'[p].status = 423
            ELSE IF users[id].status = "inactive"
            THEN reqs'[p].phase = "done" /\ reqs'[p].status = 403
            ELSE /\ reqs'[p].phase = "authenticated"
                 /\ reqs'[p].user.id = id
                 /\ reqs'[p].user.status = "active"]_vars

\* A token signed while its principal was active is turned away with 423.
C6_Witness ==
  \E p \in Procs, id \in UserIds :
    /\ reqs[p].header = SignedToken(held[id].jwt)
    /\ held[id].issuedTo = "active"
    /\ users[id].status = "locked"
    /\ reqs[p].phase = "done"
    /\ reqs[p].status = 423
    /\ ~reqs[p].handled

----------------------------------------------------------------------------
(* Claims on overlapping requests *)

\* C7 (under SpecLoginRace): once no login is in flight, a principal's stored
\* counter equals the number of failed credential checks made against it, and
\* the lock-expiry is set when that number has reached the threshold.
C7_NoLostUpdate ==
  (\A p \in Procs : reqs[p].phase # "login") =>
    \A id \in UserIds :
      /\ users[id].login_attempts = track[id].streak
      /\ track[id].streak >= MaxAttempts => users[id].locked_until # Null

\* C8 (under SpecPermRace): a request whose principal was loaded while a replace
\* from a non-empty old set to a non-empty new set stood between its destroy
\* and its insert carries the full old set or the full new set.
C8_ReaderSeesOldOrNew ==
  \A p \in Procs :
    (/\ reqs[p].user.id # NoUser
     /\ reqs[p].target # NoRole
     /\ reqs[p].route.name = "probe"
     /\ reqs[p].oldSet # {}
     /\ reqs[p].newSet # {}) =>
      reqs[p].user.role.permissions \in {reqs[p].oldSet, reqs[p].newSet}

----------------------------------------------------------------------------
(* Claims on POST /auth/login, under SpecAuth *)

\* The row that a login for this email reads.
LoginUser(email) == FindByEmail(users, email)

\* The row's lock-expiry lies in the future.
LockPending(user) ==
  user.id # NoUser /\ user.locked_until # Null /\ now < user.locked_until

\* C11: a login made while the clock is before the principal's lock-expiry is
\* answered 423 whatever password it carries, returns no token and leaves the
\* User table (counter, lock-expiry and last-login included) as it was.
C11_LockedLoginFrame ==
  [][\A email \in AuthEmails, password \in Passwords :
       (Login(email, password) /\ LockPending(LoginUser(email))) =>
         /\ last'.resp = AccountLocked
         /\ users' = users
         /\ held' = held]_vars

\* A login with the right password, turned away inside the lock window with
\* the counter still at the threshold.
C11_Witness ==
  /\ last.op = "login"
  /\ last.pwOk
  /\ last.resp = AccountLocked
  /\ last.lockBefore # Null
  /\ users[last.uid].locked_until = last.lockBefore
  /\ users[last.uid].login_attempts = MaxAttempts
  /\ users[last.uid].last_login = Null

\* C12: a login with the right password made when no lock-expiry lies in the
\* future is answered 200 and leaves the counter at 0, the lock-expiry null and
\* last-login at the time of the login.
C12_SuccessResets ==
  [][\A email \in AuthEmails, password \in Passwords :
       LET user == LoginUser(email) IN
       (/\ Login(email, password)
        /\ user.id # NoUser
        /\ Compare(password, user.password_hash)
        /\ ~LockPending(user)) =>
         /\ last'.resp = LoginSuccessful
         /\ users'[user.id].login_attempts = 0
         /\ users'[user.id].locked_until = Null
         /\ users'[user.id].last_login = now]_vars

\* A successful login of a principal whose counter stood at the threshold and
\* whose lock had run out.
C12_Witness ==
  /\ last.op = "login"
  /\ last.resp = LoginSuccessful
  /\ last.attemptsBefore = MaxAttempts
  /\ last.lockBefore # Null
  /\ users[last.uid].login_attempts = 0
  /\ users[last.uid].locked_until = Null
  /\ users[last.uid].last_login # Null

----------------------------------------------------------------------------
(* Claims on POST /auth/reset-password/:token, under SpecAuth *)

\* The reset tokens a confirm is tried with: the generated ones and one more.
ConfirmTokens == (1 .. MaxTokens) \cup {BogusToken}

\* C13: a reset-confirm is answered 200 only when some principal stores the
\* supplied token with an expiry in the future; when no principal does, it is
\* answered 400 'Invalid or expired reset token' and the User table stays as
\* it was.
C13_ConfirmNeedsLiveToken ==
  [][\A token \in ConfirmTokens, password \in Passwords :
       LET user == FindByResetToken(users, token, now) IN
       ResetConfirm(token, password) =>
         /\ last'.resp.status = 200 => user.id # NoUser
         /\ user.id = NoUser =>
              (last'.resp = InvalidOrExpiredToken /\ users' = users)]_vars

\* C14: a reset-confirm with a stored, unexpired token is answered 200 and
\* leaves the principal with the hash of the new password, no reset token, no
\* reset-expiry, counter 0 and no lock-expiry, so that a login with the new
\* password succeeds at once.
C14_ConfirmResetsAccount ==
  [][\A token \in ConfirmTokens, password \in Passwords :
       LET user == FindByResetToken(users, token, now) IN
       (ResetConfirm(token, password) /\ user.id # NoUser) =>
         /\ last'.resp = ResetSuccessful
         /\ users'[user.id].password_hash = Hash(password)
         /\ users'[user.id].reset_password_token = NoToken
         /\ users'[user.id].reset_password_expires = Null
         /\ users'[user.id].login_attempts = 0
         /\ users'[user.id].locked_until = Null
         /\ LoginOutcome(users'[user.id], password, now).resp = LoginSuccessful]_vars

----------------------------------------------------------------------------
(* Claims on the two locks, under SpecGuard *)

\* C15: a login with the right password is turned away with no token when the
\* principal's status is 'locked', as it is when the principal's lock-expiry
\* lies in the future.
C15_BothLocksGateLogin ==
  [][\A email \in UserIds, password \in Passwords :
       LET user == LoginUser(email) IN
       (/\ Login(email, password)
        /\ user.id # NoUser
        /\ Compare(password, user.password_hash)
        /\ (user.status = "locked" \/ LockPending(user))) =>
         /\ last'.resp.status # 200
         /\ held' = held]_vars

----------------------------------------------------------------------------
(* Claims on the verification of the token, under SpecGuard *)

\* The header fails verification at the present time: no Bearer token, a token
\* that does not parse, one signed with another secret, or one whose expiry
\* the clock has reached.
FailsVerification(header) ==
  \/ header.kind # "signed"
  \/ now >= header.jwt.exp

\* C16: a request whose token fails verification, for whichever reason, is
\* answered 401 by authenticateJWT: no principal is attached and neither
\* authorize nor the handler runs.
C16_VerificationFailureIs401 ==
  [][\A p \in Procs :
       (Authenticates(p) /\ FailsVerification(reqs'[p].header)) =>
         /\ reqs'[p].phase = "done"
         /\ reqs'[p].status = 401
         /\ reqs'[p].user = NullUser
         /\ ~reqs'[p].handled]_vars

\* A token of an existing, active principal turned away with 401 after its
\* expiry, and never handled.
C16_Witness ==
  \E p \in Procs :
    /\ reqs[p].header.kind = "signed"
    /\ reqs[p].message = "Token expired"
    /\ users[reqs[p].header.jwt.userId].exists
    /\ users[reqs[p].header.jwt.userId].status = "active"
    /\ reqs[p].phase = "done"
    /\ reqs[p].status = 401
    /\ reqs[p].user = NullUser
    /\ ~reqs[p].handled

\* The messages with which authenticateJWT turns a token or its absence away.
VerificationMessages == {"Access token required", "Invalid token", "Token expired"}

\* C17: a token signed at time T with lifetime JwtLifetime passes verification
\* at every time before T + JwtLifetime, whatever the tables hold, and is
\* answered 401 'Token expired' at every time after it.
C17_TokenExpiry ==
  [][\A p \in Procs :
       LET jwt == reqs'[p].header.jwt IN
       (Authenticates(p) /\ reqs'[p].header.kind = "signed") =>
         /\ jwt.exp = jwt.iat + JwtLifetime
         /\ now < jwt.iat + JwtLifetime =>
              reqs'[p].message \notin VerificationMessages
         /\ now > jwt.iat + JwtLifetime =>
              (reqs'[p].status = 401 /\ reqs'[p].message = "Token expired")]_vars

\* A token signed after time 0 and accepted one tick before its expiry: the
\* request went on to its handler.
C17_Witness ==
  \E p \in Procs :
    /\ reqs[p].header.kind = "signed"
    /\ reqs[p].header.jwt.exp = now + 1
    /\ reqs[p].header.jwt.iat > 0
    /\ reqs[p].handled
    /\ reqs[p].status = 200

----------------------------------------------------------------------------
(* Claims on the responses of a failed login, under SpecAuth *)

\* The login carries an email no principal has, or a password that does not
\* match the principal's hash.
BadCredentials(email, password) ==
  LET user == LoginUser(email) IN
  user.id = NoUser \/ ~Compare(password, user.password_hash)

\* C18: a login with an unknown email and a login with a known email and a
\* wrong password get one and the same response, 401 'Invalid credentials',
\* so that the response to a wrong password does not tell whether the email
\* exists.
C18_GenericFailure ==
  [][\A email \in AuthEmails, password \in Passwords :
       (Login(email, password) /\ BadCredentials(email, password)) =>
         last'.resp = InvalidCredentials]_vars

\* C18 as amended: a login with an unknown email and a login with a wrong
\* password for a known email whose lock-expiry does not lie in the future get
\* one and the same response, 401 'Invalid credentials'.
C18_GenericFailureUnlessLocked ==
  [][\A email \in AuthEmails, password \in Passwords :
       (/\ Login(email, password)
        /\ BadCredentials(email, password)
        /\ ~LockPending(LoginUser(email))) =>
         last'.resp = InvalidCredentials]_vars

\* The wrong password that sets the lock is still answered 401, as a login
\* with an unknown email is.
C18_Witness ==
  /\ last.op = "login"
  /\ last.uid # NoUser
  /\ ~last.pwOk
  /\ last.lockBefore = Null
  /\ users[last.uid].locked_until # Null
  /\ last.resp = InvalidCredentials
  /\ last.resp = LoginOutcome(NullUser, SeedPassword, now).resp

----------------------------------------------------------------------------
(* Claims on the order of the guards, under SpecGuard *)

\* The request carries a principal that authenticateJWT attached and authorize
\* has let through for the route's module and action.
PassedBoth(p) ==
  /\ reqs[p].phase = "authorized"
  /\ reqs[p].user.id # NoUser
  /\ authorize(reqs[p].user, reqs[p].route.module, reqs[p].route.action).status = Passed

\* The step runs the handler of request p.
Handles(p) == ~reqs[p].handled /\ reqs'[p].handled

\* The step writes a resource: a row of User changes in status or existence.
WritesResource ==
  \E id \in UserIds :
    \/ users'[id].status # users[id].status
    \/ users'[id].exists # users[id].exists

\* C19: authorize runs only on a request that authenticateJWT let through
\* with a principal, a handler runs only on a request that both guards let
\* through, and no resource is written but by such a handler.
C19_GuardsBeforeHandler ==
  [][/\ \A p \in Procs :
          (reqs[p].phase # "authorized" /\ reqs'[p].phase = "authorized") =>
            (reqs[p].phase = "authenticated" /\ reqs[p].user.id # NoUser)
     /\ \A p \in Procs : Handles(p) => PassedBoth(p)
     /\ WritesResource => \E p \in Procs : Handles(p) /\ PassedBoth(p)]_vars

\* PUT /users/:id of a principal without the users module: authorize answered
\* 403 and the handler did not run.
C19_Witness ==
  \E p \in Procs :
    /\ reqs[p].route = PutUser
    /\ reqs[p].user.id # NoUser
    /\ reqs[p].phase = "done"
    /\ reqs[p].status = 403
    /\ reqs[p].message = "Access denied: No permissions for module"
    /\ ~reqs[p].handled

----------------------------------------------------------------------------
(* Claims on system roles, under SpecRole *)

SystemRole(id) == roles[id].exists /\ roles[id].is_system_role

\* C20: PUT /roles/:id, PUT /roles/:id/permissions and DELETE /roles/:id on a
\* role whose is_system_role is true are each answered 403, and no step
\* changes the attributes or the permission rows of such a role.
C20_SystemRoleImmutable ==
  [][/\ \A p \in Procs :
          (/\ Handles(p)
           /\ reqs[p].route \in RoleRoutes
           /\ reqs'[p].target \in RoleIds
           /\ SystemRole(reqs'[p].target)) =>
            (reqs'[p].status = 403 /\ roles' = roles /\ perms' = perms)
     /\ \A id \in RoleIds :
          SystemRole(id) =>
            /\ roles'[id] = roles[id]
            /\ PermissionsOf(perms', id) = PermissionsOf(perms, id)]_vars

\* A permission replace turned away with 403 on a role that an earlier update
\* had made a system role; its rows are the seeded ones.
C20_Witness ==
  \E p \in Procs :
    /\ reqs[p].route = PutRolePermissions
    /\ reqs[p].handled
    /\ reqs[p].target = 2
    /\ SystemRole(2)
    /\ reqs[p].status = 403
    /\ PermissionsOf(perms, 2) = PermissionsOf(SeedPermissions, 2)

----------------------------------------------------------------------------
(* Claims on the deletion of roles, under SpecRoleRace *)

\* The step ends request p.
Answers(p) == reqs[p].phase # "done" /\ reqs'[p].phase = "done"

\* Every principal's role exists.
RolesExist ==
  \A id \in UserIds :
    users[id].exists =>
      (users[id].role_id \in RoleIds /\ roles[users[id].role_id].exists)

\* C21: a DELETE /roles/:id that is answered while a principal references the
\* (non-system) role is answered with the conflict response, 400 'Cannot
\* delete role that is assigned to users', and leaves the role in place; no
\* principal ever references a deleted role, also when a reassignment of a
\* user falls between the delete's read and its destroy.
C21_ReferencedRoleStays ==
  [][/\ \A p \in Procs :
          LET id == reqs'[p].target IN
          (/\ Answers(p)
           /\ reqs[p].route = DeleteRoleRoute
           /\ id \in RoleIds
           /\ roles[id].exists
           /\ ~roles[id].is_system_role
           /\ UsersOf(users, id) # {}) =>
            (reqs'[p].status = 400 /\ roles'[id] = roles[id])
     /\ RolesExist => RolesExist']_vars

----------------------------------------------------------------------------
(* Claims on tokens of a principal under automatic lockout, under SpecLockGuard *)

\* C22: a signed, unexpired token of an existing principal with status
\* 'active' passes authenticateJWT whatever the principal's counter and
\* lock-expiry are: the principal is attached and the next guard runs.
C22_OnlyStatusGatesTokens ==
  [][\A p \in Procs :
       LET header == reqs'[p].header
           id == header.jwt.userId
       IN (/\ Authenticates(p)
           /\ header.kind = "signed"
           /\ now < header.jwt.exp
           /\ users[id].exists
           /\ users[id].status = "active") =>
            /\ reqs'[p].phase = "authenticated"
            /\ reqs'[p].status = Passed
            /\ reqs'[p].user.id = id]_vars

\* A request that authenticateJWT let through while the principal's
\* lock-expiry lay in the future, and that went on to its handler.
C22_Witness ==
  \E p \in Procs :
    /\ reqs[p].header.kind = "signed"
    /\ reqs[p].lockSeen # Null
    /\ reqs[p].lockSeen >= reqs[p].header.jwt.exp
    /\ users[reqs[p].user.id].login_attempts >= MaxAttempts
    /\ reqs[p].handled
    /\ reqs[p].status = 200

----------------------------------------------------------------------------
(* Claims on the expiry of locks, under SpecAuth *)

\* The step changes some principal's counter or lock-expiry.
LockStateChanges ==
  \E id \in UserIds :
    \/ users'[id].login_attempts # users[id].login_attempts
    \/ users'[id].locked_until # users[id].locked_until

\* The step is a login or a reset-confirm.
LoginOrConfirm ==
  \/ \E email \in AuthEmails, password \in Passwords : Login(email, password)
  \/ \E token \in ConfirmTokens, password \in Passwords : ResetConfirm(token, password)

----------------------------------------------------------------------------
(* Claims on the replacement of reset tokens, under SpecAuth *)

\* The principals that store the token.
HoldersOf(token) == {id \in UserIds : users[id].exists /\ users[id].reset_password_token = token}

\* C24: a reset-request overwrites the principal's stored token and expiry, so
\* that a confirm with a token the server generated and a later request has
\* replaced is answered 400 'Invalid or expired reset token', and a confirm
\* with the stored token before its expiry is answered 200.
C24_LatestTokenOnly ==
  [][\A token \in 1 .. MaxTokens, password \in Passwords :
       ResetConfirm(token, password) =>
         /\ (token < nextToken /\ HoldersOf(token) = {}) =>
              (last'.resp = InvalidOrExpiredToken /\ users' = users)
         /\ FindByResetToken(users, token, now).id # NoUser =>
              last'.resp = ResetSuccessful]_vars

----------------------------------------------------------------------------
(* Claims on the super-administrator role, under SpecRole *)

\* The roles named exactly 'Super Admin'.
SuperAdmins == {id \in RoleIds : roles[id].exists /\ roles[id].name = SuperAdminName}

\* C25: after any sequence of role creations, updates, permission replaces and
\* deletions there is exactly one role named 'Super Admin', the seeded one.
C25_OneSuperAdmin == SuperAdmins = {1}

\* A POST /roles that asked for the name 'Super Admin' while an id was free,
\* and was turned away.
C25_Witness ==
  \E p \in Procs :
    /\ reqs[p].route = PostRole
    /\ reqs[p].handled
    /\ reqs[p].body.name = SuperAdminName
    /\ reqs[p].status = 500
    /\ reqs[p].target = NoRole
    /\ \E id \in RoleIds : roles[id].exists /\ roles[id].name = "Manager"

----------------------------------------------------------------------------
(* Claims on the permission rows, under SpecPermWrite *)

\* C26: the RolePermission table never holds two rows for one role and one
\* module, whatever roles are created with permissions and whatever permission
\* replaces run, alone or overlapping, with or without a module named twice.
C26_OneRowPerModule ==
  \A a, b \in perms :
    (a.role_id = b.role_id /\ a.module = b.module) => a = b

\* Two overlapping replaces on one role: the insert of one came after the
\* insert of the other and was turned away, though its body named no module
\* twice.
C26_Witness ==
  \E p, q \in Procs :
    /\ p # q
    /\ reqs[p].route = PutRolePermissions
    /\ reqs[q].route = PutRolePermissions
    /\ reqs[p].target = reqs[q].target
    /\ reqs[p].permissions \in ValidBodies
    /\ reqs[p].phase = "done" /\ reqs[p].status = 500
    /\ reqs[q].phase = "done" /\ reqs[q].status = 200

----------------------------------------------------------------------------
(* Claims on the counter after a lock has expired, under SpecAuth *)

\* C27: once the counter has reached the threshold, a failed credential check
\* made when the lock-expiry no longer lies in the future is answered 401,
\* raises the counter by one and sets the lock-expiry to now + LockoutTime.
C27_RelockAfterExpiry ==
  [][\A email \in AuthEmails, password \in Passwords :
       LET user == LoginUser(email) IN
       (/\ Login(email, password)
        /\ user.id # NoUser
        /\ user.login_attempts >= MaxAttempts
        /\ ~LockPending(user)
        /\ ~Compare(password, user.password_hash)) =>
         /\ last'.resp = InvalidCredentials
         /\ users'[user.id].login_attempts = user.login_attempts + 1
         /\ users'[user.id].locked_until = now + LockoutTime]_vars

\* One wrong password after the lock ran out: the counter stands above the
\* threshold and a later lock-expiry is stored.
C27_Witness ==
  /\ last.op = "login"
  /\ ~last.pwOk
  /\ last.resp = InvalidCredentials
  /\ last.attemptsBefore >= MaxAttempts
  /\ last.lockBefore # Null
  /\ users[last.uid].login_attempts = last.attemptsBefore + 1
  /\ users[last.uid].locked_until > last.lockBefore

----------------------------------------------------------------------------
(* Claims on the status field, under SpecStatus *)

\* The step is a login, a reset-request or a reset-confirm.
AuthStep ==
  \/ \E email \in UserIds, password \in Passwords : Login(email, password)
  \/ \E email \in UserIds : ResetRequest(email)
  \/ \E token \in ConfirmTokens, password \in Passwords : ResetConfirm(token, password)

\* C28: no login, reset-request or reset-confirm changes the status of any
\* principal: a lockout is recorded in the counter and the lock-expiry only,
\* and a principal set to 'locked' or 'inactive' stays so through them.
C28_StatusUntouched ==
  [][AuthStep => \A id \in UserIds : users'[id].status = users[id].status]_vars

\* The wrong password that sets the lock-expiry of a principal whose status an
\* administrator had set to 'inactive': the status is as it was.
C28_Witness ==
  /\ last.op = "login"
  /\ last.uid = 2
  /\ ~last.pwOk
  /\ last.lockBefore = Null
  /\ users[2].locked_until # Null
  /\ users[2].login_attempts = MaxAttempts
  /\ users[2].status = "inactive"

----------------------------------------------------------------------------
(* Claims on the issue of session tokens, under SpecAuth *)

\* The login finds a principal, passes the lock check and carries the
\* password of the stored hash.
GoodLogin(email, password) ==
  LET user == LoginUser(email) IN
  /\ user.id # NoUser
  /\ ~LockPending(user)
  /\ Compare(password, user.password_hash)

\* C29: a session token is handed out only by a login that found a principal,
\* passed the lock check and verified the password; it names that principal
\* and is signed at the time of the login; a login answered 401 or 423, a
\* reset-request and a reset-confirm hand out none.
C29_TokenOnlyFromGoodLogin ==
  [][/\ \A email \in AuthEmails, password \in Passwords :
          Login(email, password) =>
            IF GoodLogin(email, password)
            THEN /\ last'.resp = LoginSuccessful
                 /\ held'[email].jwt = Jwt(LoginUser(email).id, now)
                 /\ \A id \in UserIds \ {email} : held'[id] = held[id]
            ELSE /\ last'.resp.status \in {401, 423}
                 /\ "token" \notin last'.resp.fields
                 /\ held' = held
     /\ held' # held =>
          \E email \in AuthEmails, password \in Passwords :
            Login(email, password) /\ GoodLogin(email, password)
     /\ (last'.op # "login" /\ last' # last) =>
          ("token" \notin last'.resp.fields /\ held' = held)]_vars

\* A token in the hands of principal 1, signed at its last login, while the
\* last login was turned away inside a lock window and handed out nothing.
C29_Witness ==
  /\ held[1].jwt # NoJwt
  /\ held[1].jwt.userId = 1
  /\ last.op = "login"
  /\ last.uid = 1
  /\ last.pwOk
  /\ last.resp = AccountLocked
  /\ held[1].jwt.iat = users[1].last_login

\* C30: in every state reached by logins and reset operations made one after
\* the other, a principal whose counter has reached the threshold has a
\* lock-expiry stored.
C30_ThresholdImpliesLock ==
  \A id \in UserIds :
    users[id].login_attempts >= MaxAttempts => users[id].locked_until # Null

\* A counter above the threshold, after a re-lock, with its new lock-expiry
\* stored.
C30_Witness ==
  \E id \in UserIds :
    /\ users[id].login_attempts > MaxAttempts
    /\ users[id].locked_until # Null
    /\ users[id].locked_until > now

====
